---- MODULE Spec2Model ----
(***************************************************************************)
(* Model of the blocked LQ generator unglq (tlapack/lapack/unglq.hpp), its *)
(* workspace query unglq_worksize, the legacy ung2r wrapper                *)
(* (legacy_api/lapack/ung2r.hpp) and laset (lapack/laset.hpp).             *)
(*                                                                         *)
(* idx_t is an unsigned machine integer of W bits: every value stored in   *)
(* or converted to an idx_t is reduced modulo 2^W.  An arithmetic          *)
(* expression that is compared without being converted back (k - 1 at      *)
(* line 161) is reduced modulo 2^W only when idx_t is at least as wide as  *)
(* int (size_t, uint32_t); for a narrower idx_t (uint8_t, uint16_t) the    *)
(* operands are promoted to int and the expression keeps its mathematical  *)
(* value.  Both kinds of instantiation are covered.  A matrix element is   *)
(* abstracted to the kind of the last write it received:                   *)
(*   "in"   never written, still the caller's (factored) input value       *)
(*   "zero" written with zero,  "one" written with one                     *)
(*   "q"    written by larfb or ungl2 with a computed value                *)
(***************************************************************************)
EXTENDS Integers, Sequences, FiniteSets

\* width of idx_t in bits; all dimensions 0 .. 2^W - 1 are enumerated
W == 3
Modulus == 2 ^ W
MaxIdx == Modulus - 1
Idx == 0 .. MaxIdx

\* sizeof(T) of the element type T (bytes)
sizeofT == 4

VARIABLES
    m, n, k, optsnb,   \* unglq inputs: nrows(A), ncols(A), size(tau), opts.nb
    nb,                \* const idx_t nb
    pc,                \* position inside unglq
    A,                 \* the matrix A, [row, col] -> kind of last write
    oob,               \* TRUE once an element outside the m-by-n extent was addressed
    i, ib,             \* loop variables of the block loop
    work,              \* bytes of the allocated workspace (-1: not allocated)
    ret,               \* return value of unglq (-1: none yet)
    trace,             \* calls made so far: <<[op, i, ib], ...>>
    badslice,          \* names of the slices taken so far that are no valid sub-view
    lg_m, lg_n, lg_k, lg_lda,  \* legacy ung2r arguments m, n, k, lda
    lg_pc,             \* position inside the legacy ung2r
    lg_info,           \* result code of the legacy ung2r
    lg_work,           \* length of the work array (-1: not allocated)
    lg_A,              \* "in": A untouched, "q": overwritten by the generic ung2r
    ls_uplo, ls_m, ls_n,       \* laset arguments uplo, nrows(A), ncols(A)
    ls_pc,             \* position inside laset
    ls_A               \* laset's matrix, [row, col] -> "in" | "alpha" | "beta"

uvars == <<m, n, k, optsnb, nb, pc, A, oob, i, ib, work, ret, trace, badslice>>
lgvars == <<lg_m, lg_n, lg_k, lg_lda, lg_pc, lg_info, lg_work, lg_A>>
lsvars == <<ls_uplo, ls_m, ls_n, ls_pc, ls_A>>
vars == <<uvars, lgvars, lsvars>>

\* conversion to idx_t: unsigned wrap-around
wrap(x) == x % Modulus

min(a, b) == IF a < b THEN a ELSE b

\* range{b, e} x range{c, d} as a set of element indices
slice(rb, re, cb, ce) == (rb .. re - 1) \X (cb .. ce - 1)

Extent(mm, nn) == (0 .. mm - 1) \X (0 .. nn - 1)

\* store v into every element of S that exists in the matrix
Store(M, S, v) == [rc \in DOMAIN M |-> IF rc \in S THEN v ELSE M[rc]]

\* a half-open range {b, e} addresses a valid part of an extent of ext
ValidRange(b, e, ext) == b <= e /\ e <= ext

\* slice(M, range{rb, re}, range{cb, ce}) of a rows-by-cols matrix M
ValidSlice(rb, re, cb, ce, rows, cols) ==
    ValidRange(rb, re, rows) /\ ValidRange(cb, ce, cols)

\* the slice called name, if it is no valid sub-view
Bad(name, valid) == IF valid THEN {} ELSE {name}

\* tlapack_check_false(cond, info): when cond holds the call ends at once
\* with the argument-validation failure info, otherwise execution goes on
tlapack_check_false(cond, info, rest) == IF cond THEN info ELSE rest

\* larfb(Right, ConjTrans, Forward, Rowwise, V, matrixTi, C): overwrites
\* every element of C with C * H^H and nothing else of the matrix
larfb(M, C) == Store(M, C, "q")

\* ungl2(Ai, taui): overwrites every element of Ai with the generated rows
ungl2(M, Ai) == Store(M, Ai, "q")

\* one entry of trace: the operation and the block it was called for
Call(op) == [op |-> op, i |-> i, ib |-> ib]

----------------------------------------------------------------------------
(* unglq_worksize, unglq.hpp:51-82 *)

\* larfb_worksize for side = Right: an nrows(C)-by-nrows(T) work matrix
larfb_worksize(rowsC, rowsT) == sizeofT * rowsC * rowsT

\* mutant: the larfb query is made for the nb-by-nb matrixT instead of A
unglq_worksize_queryT(mm, kk, onb) ==
    LET nbq == min(onb, kk)
    IN  (nbq * sizeofT) * nbq + larfb_worksize(nbq, nbq)

unglq_worksize(mm, kk, onb) ==
    LET nbq == min(onb, kk)
    IN  (nbq * sizeofT) * nbq + larfb_worksize(mm, nbq)

\* lines 73-74: the slices V and matrixT of the m-by-n matrix A
WorksizeSlices(mm, nn, kk, onb) ==
    LET nbq == min(onb, kk)
    IN  Bad("worksize.V", ValidSlice(0, nbq, 0, mm, mm, nn))
          \cup Bad("worksize.matrixT", ValidSlice(0, nbq, 0, nbq, mm, nn))

\* bytes left in work after new_matrix(work, nb, nb, sparework)
sparework == work - (nb * nb) * sizeofT

----------------------------------------------------------------------------
(* unglq, unglq.hpp:116-192 *)

\* mutant: off-by-one argument check
CheckFails_offByOne(kk, nn) == tlapack_check_false(kk > nn + 1, TRUE, FALSE)

\* line 136: tlapack_check_false(k > n)
CheckFails(kk, nn) == tlapack_check_false(kk > nn, TRUE, FALSE)

\* lines 127-139: constants, argument check, quick return
Validate ==
    /\ pc = "check"
    /\ nb' = min(optsnb, k)
    /\ IF CheckFails(k, n)
         THEN pc' = "error" /\ ret' = ret
         ELSE IF n <= 0
                THEN pc' = "done" /\ ret' = 0
                ELSE pc' = "alloc" /\ ret' = ret
    /\ UNCHANGED <<m, n, k, optsnb, A, oob, i, ib, work, trace, badslice>>
    /\ UNCHANGED <<lgvars, lsvars>>

\* lines 141-154: workspace query, allocation, matrixT
Alloc ==
    /\ pc = "alloc"
    /\ work' = unglq_worksize(m, k, optsnb)
    /\ pc' = "seed"
    /\ badslice' = badslice \cup WorksizeSlices(m, n, k, optsnb)
    /\ UNCHANGED <<m, n, k, optsnb, nb, A, oob, i, ib, ret, trace>>
    /\ UNCHANGED <<lgvars, lsvars>>

\* the values k - 1 can have in the comparison j > k - 1 of line 161:
\* wrapped when the subtraction is done in idx_t (idx_t as wide as int or
\* wider), the integer k - 1 when the operands are promoted to int
KMinus1 == {wrap(k - 1), k - 1}

\* value of A(r, c) after the loops of lines 158-162, km1 the value of k - 1
SeedValue(r, c, km1) ==
    IF r >= k /\ r < m
      THEN IF c = r /\ c < m /\ c > km1 THEN "one" ELSE "zero"
      ELSE A[<<r, c>>]

\* lines 156-163: rows k:m become rows of the unit matrix
Seed ==
    /\ pc = "seed"
    /\ \E km1 \in KMinus1 :
          A' = IF m > k
                 THEN [rc \in DOMAIN A |-> SeedValue(rc[1], rc[2], km1)]
                 ELSE A
    /\ pc' = "init"
    /\ UNCHANGED <<m, n, k, optsnb, nb, oob, i, ib, work, ret, trace, badslice>>
    /\ UNCHANGED <<lgvars, lsvars>>

\* line 165, init-statement: i = ((k - 1) / nb) * nb.  With nb = 0 the
\* division is undefined: the build traps, or yields some quotient.
LoopInit ==
    /\ pc = "init"
    /\ IF nb = 0
         THEN \/ pc' = "trap" /\ i' = i
              \/ \E quot \in Idx : i' = wrap(quot * nb) /\ pc' = "for"
         ELSE i' = wrap((wrap(k - 1) \div nb) * nb) /\ pc' = "for"
    /\ UNCHANGED <<m, n, k, optsnb, nb, A, oob, ib, work, ret, trace, badslice>>
    /\ UNCHANGED <<lgvars, lsvars>>

\* line 165 condition, i != idx_t(-nb)
LoopCond(ii, nbb) == ii # wrap(0 - nbb)

\* mutant: "not the last block" tested against k instead of m
HasTrailing_lastBlock(ii, ibb, mm) == wrap(ii + ibb) < k

\* line 171 condition
HasTrailing(ii, ibb, mm) == wrap(ii + ibb) < mm

\* lines 165-171: loop test, ib, taui, test for a trailing part
LoopTest ==
    /\ pc = "for"
    /\ IF LoopCond(i, nb)
         THEN /\ ib' = min(nb, wrap(k - i))
              /\ badslice' = badslice
                    \cup Bad("taui", ValidRange(i, wrap(i + ib'), k))
              /\ pc' = IF HasTrailing(i, ib', m) THEN "larft" ELSE "ungl2"
              /\ ret' = ret
         ELSE /\ pc' = "done"
              /\ ret' = 0
              /\ ib' = ib
              /\ badslice' = badslice
    /\ UNCHANGED <<m, n, k, optsnb, nb, A, oob, i, work, trace>>
    /\ UNCHANGED <<lgvars, lsvars>>

\* lines 174-178: V, matrixTi, larft(V, taui, matrixTi) writes matrixTi only
Larft ==
    /\ pc = "larft"
    /\ trace' = Append(trace, Call("larft"))
    /\ pc' = "larfb"
    /\ badslice' = badslice
          \cup Bad("V", ValidSlice(i, wrap(i + ib), i, n, m, n))
          \cup Bad("matrixTi", ValidSlice(0, ib, 0, ib, nb, nb))
          \cup Bad("C", ValidSlice(wrap(i + ib), m, i, n, m, n))
    /\ UNCHANGED <<m, n, k, optsnb, nb, A, oob, i, ib, work, ret>>
    /\ UNCHANGED <<lgvars, lsvars>>

\* lines 176-180: C = rows [i+ib, m), columns [i, n); larfb overwrites C
Larfb ==
    /\ pc = "larfb"
    /\ LET C == slice(wrap(i + ib), m, i, n)
       IN  /\ A' = larfb(A, C)
           /\ oob' = (oob \/ ~(C \subseteq DOMAIN A))
           /\ trace' = Append(trace, Call("larfb"))
    /\ pc' = "ungl2"
    /\ UNCHANGED <<m, n, k, optsnb, nb, i, ib, work, ret, badslice>>
    /\ UNCHANGED <<lgvars, lsvars>>

\* lines 183-184: Ai = rows [i, i+ib), columns [i, n); ungl2 overwrites Ai
Ungl2 ==
    /\ pc = "ungl2"
    /\ LET Ai == slice(i, wrap(i + ib), i, n)
       IN  /\ A' = ungl2(A, Ai)
           /\ oob' = (oob \/ ~(Ai \subseteq DOMAIN A))
           /\ trace' = Append(trace, Call("ungl2"))
    /\ pc' = "zero"
    /\ badslice' = badslice
          \cup Bad("Ai", ValidSlice(i, wrap(i + ib), i, n, m, n))
    /\ UNCHANGED <<m, n, k, optsnb, nb, i, ib, work, ret>>
    /\ UNCHANGED <<lgvars, lsvars>>

\* mutant: row and column index swapped, A(j, l) = zero
ZeroCells_transposed(ii, ibb) == (0 .. ii - 1) \X (ii .. wrap(ii + ibb) - 1)

\* mutant: the column loop starts at j = 1
ZeroCells_fromColumn1(ii, ibb) == (ii .. wrap(ii + ibb) - 1) \X (1 .. ii - 1)

\* elements written by the loops of lines 186-188
ZeroCells(ii, ibb) == (ii .. wrap(ii + ibb) - 1) \X (0 .. ii - 1)

\* lines 186-188 and the loop step i = i - nb
ZeroFill ==
    /\ pc = "zero"
    /\ LET Z == ZeroCells(i, ib)
       IN  /\ A' = Store(A, Z, "zero")
           /\ oob' = (oob \/ ~(Z \subseteq DOMAIN A))
           /\ trace' = Append(trace, Call("zero"))
    /\ i' = wrap(i - nb)
    /\ pc' = "for"
    /\ UNCHANGED <<m, n, k, optsnb, nb, ib, work, ret, badslice>>
    /\ UNCHANGED <<lgvars, lsvars>>

UnglqIdle ==
    /\ m = 0 /\ n = 0 /\ k = 0 /\ optsnb = 1 /\ nb = 0
    /\ pc = "idle"
    /\ A = [rc \in Extent(0, 0) |-> "in"]
    /\ oob = FALSE
    /\ i = 0 /\ ib = 0
    /\ work = -1 /\ ret = -1
    /\ trace = <<>>
    /\ badslice = {}

----------------------------------------------------------------------------
(* legacy ung2r, legacy_api/lapack/ung2r.hpp:43-73 *)

\* largest legacy argument enumerated (arguments range over -1 .. MaxLeg)
MaxLeg == 3

\* mutant: the test n > m is lost from the second check
Ung2rCheck_noNgtM(mm, nn, kk, ld) ==
    tlapack_check_false(mm < 0, -1,
    tlapack_check_false(nn < 0, -2,
    tlapack_check_false(kk < 0 \/ kk > nn, -3,
    tlapack_check_false(ld < mm, -5, 0))))

\* lines 52-55: the four tlapack_check_false(cond, info) in their order;
\* the info of the first condition that holds, 0 if none does
Ung2rCheck(mm, nn, kk, ld) ==
    tlapack_check_false(mm < 0, -1,
    tlapack_check_false(nn < 0 \/ nn > mm, -2,
    tlapack_check_false(kk < 0 \/ kk > nn, -3,
    tlapack_check_false(ld < mm, -5, 0))))

\* lines 51-58: argument checks and quick return
Ung2rValidate ==
    /\ lg_pc = "check"
    /\ LET info == Ung2rCheck(lg_m, lg_n, lg_k, lg_lda)
       IN  IF info # 0
             THEN lg_pc' = "returned" /\ lg_info' = info
             ELSE IF lg_n <= 0
                    THEN lg_pc' = "returned" /\ lg_info' = 0
                    ELSE lg_pc' = "run" /\ lg_info' = lg_info
    /\ UNCHANGED <<lg_m, lg_n, lg_k, lg_lda, lg_work, lg_A>>
    /\ UNCHANGED <<uvars, lsvars>>

\* the generic ung2r(k, A_, _tau, _work): overwrites A with Q, returns 0
ung2r_generic == [A |-> "q", info |-> 0]

\* lines 60-72: work = new TA[n-1], views, info = ung2r(k, A_, _tau, _work)
Ung2rGenerate ==
    /\ lg_pc = "run"
    /\ lg_work' = (IF lg_n > 0 THEN lg_n - 1 ELSE 0)
    /\ lg_A' = ung2r_generic.A
    /\ lg_info' = ung2r_generic.info
    /\ lg_pc' = "returned"
    /\ UNCHANGED <<lg_m, lg_n, lg_k, lg_lda>>
    /\ UNCHANGED <<uvars, lsvars>>

Ung2rIdle ==
    /\ lg_m = 0 /\ lg_n = 0 /\ lg_k = 0 /\ lg_lda = 0
    /\ lg_pc = "idle" /\ lg_info = 1 /\ lg_work = -1 /\ lg_A = "in"

----------------------------------------------------------------------------
(* laset, lapack/laset.hpp:38-84; uplo ranges over the three values that *)
(* pass the check of lines 51-53                                          *)

\* largest laset dimension enumerated
MaxLs == 5

\* mutant: the column loop of the Upper branch runs to n - 1 exclusive
AlphaCells_shortUpper(uplo, mm, nn) ==
    IF uplo = "Upper"
      THEN UNION {{<<r, c>> : r \in 0 .. min(mm, c) - 1} : c \in 1 .. nn - 2}
    ELSE IF uplo = "Lower"
      THEN UNION {{<<r, c>> : r \in c + 1 .. mm - 1} : c \in 0 .. min(mm, nn) - 1}
    ELSE UNION {{<<r, c>> : r \in 0 .. mm - 1} : c \in 0 .. nn - 1}

\* lines 55-78: the elements the three branches assign alpha to
AlphaCells(uplo, mm, nn) ==
    IF uplo = "Upper"
      THEN UNION {{<<r, c>> : r \in 0 .. min(mm, c) - 1} : c \in 1 .. nn - 1}
    ELSE IF uplo = "Lower"
      THEN UNION {{<<r, c>> : r \in c + 1 .. mm - 1} : c \in 0 .. min(mm, nn) - 1}
    ELSE UNION {{<<r, c>> : r \in 0 .. mm - 1} : c \in 0 .. nn - 1}

\* lines 80-83: the first min(m,n) diagonal elements
BetaCells(mm, nn) == {<<d, d>> : d \in 0 .. min(mm, nn) - 1}

laset(uplo, M, mm, nn) ==
    Store(Store(M, AlphaCells(uplo, mm, nn), "alpha"), BetaCells(mm, nn), "beta")

Laset ==
    /\ ls_pc = "call"
    /\ ls_A' = laset(ls_uplo, ls_A, ls_m, ls_n)
    /\ ls_pc' = "returned"
    /\ UNCHANGED <<ls_uplo, ls_m, ls_n>>
    /\ UNCHANGED <<uvars, lgvars>>

LasetIdle ==
    /\ ls_uplo = "General" /\ ls_m = 0 /\ ls_n = 0
    /\ ls_pc = "idle"
    /\ ls_A = [rc \in Extent(0, 0) |-> "in"]

----------------------------------------------------------------------------
(* specifications *)

InitUnglq ==
    /\ m \in Idx
    /\ n \in Idx
    /\ k \in Idx
    /\ optsnb \in 1 .. MaxIdx
    /\ nb = 0
    /\ pc = "check"
    /\ A = [rc \in Extent(m, n) |-> "in"]
    /\ oob = FALSE
    /\ i = 0
    /\ ib = 0
    /\ work = -1
    /\ ret = -1
    /\ trace = <<>>
    /\ badslice = {}

Init == InitUnglq /\ Ung2rIdle /\ LasetIdle

Next ==
    \/ Validate
    \/ Alloc
    \/ Seed
    \/ LoopInit
    \/ LoopTest
    \/ Larft
    \/ Larfb
    \/ Ungl2
    \/ ZeroFill

Spec == Init /\ [][Next]_vars

InitUng2r ==
    /\ UnglqIdle /\ LasetIdle
    /\ lg_m \in -1 .. MaxLeg
    /\ lg_n \in -1 .. MaxLeg
    /\ lg_k \in -1 .. MaxLeg
    /\ lg_lda \in -1 .. MaxLeg
    /\ lg_pc = "check"
    /\ lg_info = 1
    /\ lg_work = -1
    /\ lg_A = "in"

NextUng2r == Ung2rValidate \/ Ung2rGenerate

SpecUng2r == InitUng2r /\ [][NextUng2r]_vars

InitLaset ==
    /\ UnglqIdle /\ Ung2rIdle
    /\ ls_uplo \in {"Upper", "Lower", "General"}
    /\ ls_m \in 0 .. MaxLs
    /\ ls_n \in 0 .. MaxLs
    /\ ls_pc = "call"
    /\ ls_A = [rc \in Extent(ls_m, ls_n) |-> "in"]

NextLaset == Laset

SpecLaset == InitLaset /\ [][NextLaset]_vars

TypeOK ==
    /\ pc \in {"idle", "check", "alloc", "seed", "init", "for", "larft", "larfb",
               "ungl2", "zero", "done", "error", "trap"}
    /\ i \in Idx /\ ib \in Idx /\ nb \in Idx

----------------------------------------------------------------------------
(* properties *)

\* the matrix as the caller passed it
InputA == [rc \in Extent(m, n) |-> "in"]

\* the trace entries of one operation, in call order
CallsOf(op) == SelectSeq(trace, LAMBDA e : e.op = op)

\* C1: a call with k = size(tau) > n = ncols(A) ends at the argument check:
\* no workspace was allocated, no element of A was written (A equals its
\* input element for element) and none of larft, larfb, ungl2 was invoked.
C1_OversizedKRejected ==
    (k > n /\ pc \notin {"idle", "check"}) =>
        /\ pc = "error"
        /\ A = InputA
        /\ ~oob
        /\ work = -1
        /\ trace = <<>>

C1_Witness == pc = "error" /\ k > n /\ m > 0 /\ n > 0 /\ A = InputA

\* C2: with an empty tau (k = 0) unglq completes normally with result 0,
\* runs no iteration of the block loop, invokes none of larft, larfb, ungl2
\* and addresses no element outside the m-by-n extent of A.
C2_EmptyTauCompletes ==
    (k = 0 /\ pc # "idle") =>
        /\ pc \notin {"trap", "error", "larft", "larfb", "ungl2", "zero"}
        /\ pc = "done" => ret = 0
        /\ trace = <<>>
        /\ ~oob

\* C3: for valid input (1 <= k <= n, k <= m, opts.nb >= 1) the workspace of
\* unglq_worksize holds the nb-by-nb matrixT, and what is left of it is at
\* least the scratch larfb needs for the arguments of every call made in the
\* block loop: C of m - (i + ib) rows and matrixTi of ib rows.
C3_WorkspaceSufficient ==
    (1 <= k /\ k <= n /\ k <= m /\ work # -1) =>
        /\ sparework >= 0
        /\ pc = "larfb" => larfb_worksize(m - (i + ib), ib) <= sparework

C3_Witness ==
    /\ pc = "larfb" /\ 1 <= k /\ k <= n /\ k <= m
    /\ ib < nb /\ i > 0
    /\ larfb_worksize(m - (i + ib), ib) <= sparework

\* C4: when unglq returns 0 for 1 <= k <= min(m, n), every element of A has
\* been written at least once: none still holds its input value.
C4_NoResidualInput ==
    (pc = "done" /\ ret = 0 /\ 1 <= k /\ k <= m /\ k <= n) =>
        \A rc \in DOMAIN A : A[rc] # "in"

\* number of blocks and their starts, last block first
BlockCount == ((k - 1) \div nb) + 1
ExpectedStarts == [q \in 1 .. BlockCount |-> (BlockCount - q) * nb]

\* C8: for 1 <= k <= n and opts.nb >= 1 the block loop visits exactly the
\* starts i = q*nb, q = floor((k-1)/nb), ..., 1, 0, each once and in
\* descending order, with ib = min(nb, k - i) and 1 <= ib <= nb, and then
\* unglq returns 0.
C8_BlocksDescendingOnce ==
    (pc = "done" /\ 1 <= k /\ k <= n) =>
        /\ ret = 0
        /\ Len(CallsOf("ungl2")) = BlockCount
        /\ \A q \in 1 .. Len(CallsOf("ungl2")) :
              LET e == CallsOf("ungl2")[q]
              IN  /\ q <= BlockCount
                  /\ e.i = ExpectedStarts[q]
                  /\ e.ib = min(nb, k - e.i)
                  /\ 1 <= e.ib /\ e.ib <= nb

\* C9 as stated: with nb = 1 no iteration invokes larft or larfb, and for
\* any nb they are invoked for a block only if it is not the last block.
C9_Nb1NeverReflects ==
    \A j \in 1 .. Len(trace) :
        trace[j].op \in {"larft", "larfb"} =>
            /\ nb # 1
            /\ trace[j].i + trace[j].ib < k

\* C9 amended: an iteration invokes larft and larfb (in this order, right
\* before its ungl2) exactly when rows exist below the block, i + ib < m,
\* whatever nb is; C = rows [i+ib, m), columns [i, n) is then non-empty.
C9_ReflectIffRowsBelow ==
    \A j \in 1 .. Len(trace) :
        LET e == trace[j] IN
        /\ e.op = "ungl2" =>
             ((e.i + e.ib < m) <=>
                 (/\ j > 2
                  /\ trace[j - 1] = [e EXCEPT !.op = "larfb"]
                  /\ trace[j - 2] = [e EXCEPT !.op = "larft"]))
        /\ e.op = "larfb" =>
             /\ j < Len(trace) => trace[j + 1] = [e EXCEPT !.op = "ungl2"]
             /\ slice(e.i + e.ib, m, e.i, n) # {}

C9_Witness ==
    /\ pc = "done" /\ nb = 1 /\ k = m /\ k > 1
    /\ Len(CallsOf("larfb")) = k - 1
    /\ Len(CallsOf("ungl2")) = k

\* C10: whenever m > k (0 <= k <= n) the seeding step leaves rows [k, m) of A
\* equal to rows of the identity, and writes no element of rows [0, k).
C10_SeedIdentityRows ==
    (pc = "init" /\ m > k /\ k <= n) =>
        \A rc \in DOMAIN A :
            A[rc] = IF rc[1] < k THEN "in"
                    ELSE IF rc[1] = rc[2] THEN "one" ELSE "zero"

\* C5: the legacy ung2r returns -1 if m < 0; otherwise -2 if n < 0 or n > m;
\* otherwise -3 if k < 0 or k > n; otherwise -5 if lda < m.  On these paths
\* no work array was allocated and A is unmodified; every k > n and every
\* k > m is rejected; 0 is returned only when all four checks pass.
C5_LegacyArgumentCodes ==
    lg_pc = "returned" =>
        /\ lg_m < 0 => lg_info = -1
        /\ (lg_m >= 0 /\ (lg_n < 0 \/ lg_n > lg_m)) => lg_info = -2
        /\ (lg_m >= 0 /\ 0 <= lg_n /\ lg_n <= lg_m /\ (lg_k < 0 \/ lg_k > lg_n))
               => lg_info = -3
        /\ (lg_m >= 0 /\ 0 <= lg_n /\ lg_n <= lg_m /\ 0 <= lg_k /\ lg_k <= lg_n
               /\ lg_lda < lg_m) => lg_info = -5
        /\ lg_info < 0 => (lg_work = -1 /\ lg_A = "in")
        /\ (lg_k > lg_n \/ lg_k > lg_m) => lg_info < 0
        /\ lg_info = 0 =>
               (lg_m >= 0 /\ 0 <= lg_n /\ lg_n <= lg_m /\ 0 <= lg_k /\ lg_k <= lg_n
                   /\ lg_lda >= lg_m)

C5_Witness ==
    /\ lg_pc = "returned" /\ lg_info = -2
    /\ lg_m >= 0 /\ lg_n > lg_m /\ lg_k > lg_m /\ lg_k <= lg_n
    /\ lg_work = -1 /\ lg_A = "in"

\* C6: laset on an m-by-n matrix: Upper sets every element with i < j to
\* alpha and leaves i > j unchanged; Lower sets every element with i > j to
\* alpha and leaves i < j unchanged; General sets every off-diagonal element
\* to alpha; in all three the first min(m,n) diagonal elements become beta.
C6_LasetResult ==
    ls_pc = "returned" =>
        /\ DOMAIN ls_A = Extent(ls_m, ls_n)
        /\ \A r \in 0 .. ls_m - 1 : \A c \in 0 .. ls_n - 1 :
              ls_A[<<r, c>>] =
                  IF r = c THEN "beta"
                  ELSE IF ls_uplo = "General" THEN "alpha"
                  ELSE IF ls_uplo = "Upper" THEN (IF r < c THEN "alpha" ELSE "in")
                  ELSE (IF r > c THEN "alpha" ELSE "in")

C6_Witness ==
    /\ ls_pc = "returned" /\ ls_uplo = "Upper" /\ ls_m > ls_n /\ ls_n > 2
    /\ ls_A[<<0, ls_n - 1>>] = "alpha"
    /\ ls_A[<<ls_m - 1, 0>>] = "in"
    /\ ls_A[<<ls_n - 1, ls_n - 1>>] = "beta"

\* the same block as e, another operation
SameBlock(e, op) == [e EXCEPT !.op = op]

\* C11: in every iteration the steps come in the order larft, larfb, ungl2,
\* zero-fill, and while larft and larfb read the panel V (and until the
\* block's own ungl2 starts) every element of rows [0, i+ib) of A still
\* holds its input value: neither the seeding, nor a block processed
\* earlier, nor this block's larfb has written to it.
C11_PanelIntactWhenRead ==
    /\ \A j \in 1 .. Len(trace) :
          LET e == trace[j] IN
          /\ e.op = "larft" =>
                (j < Len(trace) => trace[j + 1] = SameBlock(e, "larfb"))
          /\ e.op = "larfb" =>
                /\ j > 1 /\ trace[j - 1] = SameBlock(e, "larft")
                /\ j < Len(trace) => trace[j + 1] = SameBlock(e, "ungl2")
          /\ e.op = "ungl2" =>
                (j < Len(trace) => trace[j + 1] = SameBlock(e, "zero"))
          /\ e.op = "zero" =>
                (j > 1 /\ trace[j - 1] = SameBlock(e, "ungl2"))
    /\ pc \in {"larft", "larfb", "ungl2"} =>
          \A rc \in DOMAIN A : rc[1] < i + ib => A[rc] = "in"

C11_Witness ==
    /\ pc = "larfb" /\ i > 0 /\ ib > 1 /\ m > k /\ k <= n
    /\ Len(CallsOf("zero")) >= 1
    /\ \A rc \in DOMAIN A : rc[1] < i + ib => A[rc] = "in"
    /\ \E rc \in DOMAIN A : A[rc] = "q"

\* C12: for 1 <= k <= min(m, n), right after the iteration for block start i
\* is complete, every row l with i <= l < m is zero in all columns j < i and
\* holds no input value in any column.
C12_TrailingRowsExpanded ==
    (1 <= k /\ k <= m /\ k <= n /\ pc = "for" /\ trace # <<>>) =>
        LET done == trace[Len(trace)].i
        IN  \A rc \in DOMAIN A :
                rc[1] >= done =>
                    /\ A[rc] # "in"
                    /\ rc[2] < done => A[rc] = "zero"

C12_Witness ==
    /\ 1 <= k /\ k < m /\ k <= n /\ pc = "for"
    /\ Len(CallsOf("zero")) >= 2
    /\ trace[Len(trace)].op = "zero" /\ trace[Len(trace)].i > 0
    /\ \A rc \in DOMAIN A :
          rc[1] >= trace[Len(trace)].i =>
              (A[rc] # "in" /\ (rc[2] < trace[Len(trace)].i => A[rc] = "zero"))

\* C13: for every input accepted by the validation (k <= n) with k <= m and
\* opts.nb >= 1, every slice taken by unglq and by unglq_worksize is a valid
\* sub-view: begin <= end and end <= the extent of the sliced dimension.
C13_AllSlicesValid ==
    (k <= n /\ k <= m /\ optsnb >= 1) => badslice = {}
====
